---- MODULE Spec2Model ----
(***************************************************************************)
(* A model of dotty-mcp's interactive session driver                       *)
(* (src/src/dotty_mcp/main.py): the facade DottyProject, the session       *)
(* SBTProcess with the pexpect channel it owns, and the sbt child process  *)
(* at the other end of the pseudo-terminal.                                *)
(*                                                                         *)
(* Text is modelled as tokens.  A token is one line of the child's output  *)
(* or one prompt-like piece of text, tagged with the job the child was     *)
(* working on when it wrote it (0: startup, k: the k-th command line sent  *)
(* on the session).  Kinds of token:                                       *)
(*   "prompt"  text matching r'sbt:\w+>\s*'                                *)
(*   "gt"      a bare '>' followed by whitespace only (matches r'>\s*$'    *)
(*             when it is the end of what has been received)               *)
(*   "echo"    a line that contains the text of the command being run      *)
(*   "err"     a line that contains "[error]" in some letter case          *)
(*   "line"    any other line                                              *)
(* Every token carries its position in the child's output, which          *)
(* identifies the piece of text once and for all.                          *)
(***************************************************************************)
EXTENDS Integers, Sequences, FiniteSets

\* Bounds of the model.
MaxCmds == 2      \* command lines sent on a session
MaxOut == 1       \* tokens a child writes besides the prompts that end its jobs
MaxSpawn == 2     \* children spawned
MaxLines == 2     \* lines of a raw output given to the clean-up of execute_command
MaxLineLen == 2   \* pieces of text in such a line

Root == "/proj"   \* the --root path given to main()

Ops == {"scalac", "testCompilation"}

VARIABLES
    rootExists,    \* self.root.exists()
    hasBuildSbt,   \* (self.root / "build.sbt").exists()
    sbt_process,   \* DottyProject.sbt_process: 0 is None, n > 0 the n-th SBTProcess built
    spawnCount,    \* number of pexpect.spawn calls that created a child
    child,         \* SBTProcess.process: "none" (None), "alive", "dead" (not isalive())
    job,           \* what the child is working on: -1 idle, 0 startup, k the k-th command
    nout,          \* tokens the child has written besides the prompts ending its jobs
    first,         \* TRUE while the child has written nothing for its current job
    inq,           \* lines written to the pseudo-terminal the child has not read yet
    unread,        \* the child's output that no read has consumed yet, in order
    readPos,       \* pexpect's read cursor: the number of tokens consumed so far
    pc,            \* the caller: "idle", "starting", "executing", "closing"
    op,            \* the compile / test operation in progress ("none" when there is none)
    last,          \* the kind of the latest facade call: "none", "call", "close"
    cmds,          \* per command line sent: its operation, outcome and returned text
    startOutcome,  \* how the startup expect of the latest SBTProcess ended
    startPos,      \* the read cursor when that expect returned
    result,        \* what the last facade operation returned (text as a sequence of parts)
    forced,        \* number of terminate(force=True) calls
    raised,        \* TRUE when the last facade operation raised instead of returning
    raw,           \* execute_command's clean-up alone: self.process.before, split in lines
    output,        \* ... the output it returns, as lines (<<>> is the empty string)
    exit_code      \* ... the exit code it returns (-1 before it has run)

vars == <<rootExists, hasBuildSbt, sbt_process, spawnCount, child, job, nout, first, inq,
          unread, readPos, pc, op, last, cmds, startOutcome, startPos, result, forced,
          raised, raw, output, exit_code>>

fsVars == <<rootExists, hasBuildSbt>>
chanVars == <<child, job, nout, first, inq, unread, readPos>>
cleanVars == <<raw, output, exit_code>>

----------------------------------------------------------------------------
\* Text of the messages (a text is a sequence of parts).

RootMissingMsg == <<"Project root ", Root, " does not exist.">>
NoBuildSbtMsg == <<"No build.sbt found in ", Root, ". Not a valid SBT project.">>
StartFailedMsg == <<"Failed to start SBT process: ", "Failed to match prompt. Index: 3">>
SpawnFailedMsg == <<"Failed to start SBT process: ", "{spawn error}">>
NotRunningMsg == <<"SBT process is not running">>
TimedOutMsg == <<"Command timed out after 300 seconds">>
TerminatedMsg == <<"SBT process terminated unexpectedly">>
SendFailedMsg == <<"Error executing command: ", "{write error}">>

\* (a bug: the error is swallowed, an empty text is returned)
ErrorText_swallowed(msg) == <<>>
\* DottyProject.scalac / testCompilation, except ValueError / RuntimeError.
ErrorText(msg) == <<"Error: ">> \o msg

----------------------------------------------------------------------------
\* pexpect: searching the text received and not yet consumed.  A match is given
\* by its index in the unread text, 0 when there is none.

Min(S) == CHOOSE x \in S : \A y \in S : x <= y

PromptPositions == {i \in 1..Len(unread) : unread[i].kind = "prompt"}

\* expect(r'sbt:\w+>\s*'): the first match in the unread text.
SteadyMatchPos == IF PromptPositions = {} THEN 0 ELSE Min(PromptPositions)

\* expect([r'sbt:\w+>\s*', r'>\s*$', TIMEOUT, EOF]): the earliest match of either
\* prompt pattern; the second one is anchored at the end of the text received.
StartupMatchPos ==
    IF PromptPositions # {} THEN Min(PromptPositions)
    ELSE IF unread # <<>> /\ unread[Len(unread)].kind = "gt" THEN Len(unread)
    ELSE 0

\* (a bug: self.process.buffer, all the unread text, is taken)
Before_buffer(i) == unread
\* self.process.before after a match at index i: the unread text before the match.
Before(i) == SubSeq(unread, 1, i - 1)

\* (a bug: a match leaves the text in the buffer)
ConsumedUpTo_keep(i) == 0
\* The number of tokens a match at index i consumes: the match and what precedes it.
ConsumedUpTo(i) == i

\* The unread text once its first n tokens are consumed.
Rest(n) == SubSeq(unread, n + 1, Len(unread))

\* (a bug: the child's liveness is not looked at)
NotRunning_noneOnly == child = "none"
\* Line 86: self.process is None or not self.process.isalive()
NotRunning == child # "alive"

----------------------------------------------------------------------------
\* execute_command's post-processing of the text before the prompt (a sequence of
\* tokens), for the command text of operation o.

StripEcho(lines, o) ==
    IF Len(lines) > 0 /\ lines[1].kind = "echo" /\ lines[1].txt = o
    THEN Tail(lines) ELSE lines

ExitCode(lines) == IF \E i \in 1..Len(lines) : lines[i].kind = "err" THEN 1 ELSE 0

OutputPart(lines) == IF Len(lines) = 0 THEN <<>> ELSE <<"{output}">>

\* DottyProject.scalac / testCompilation: formatting of (output, exit_code).
Format(o, lines, code) ==
    IF o = "scalac"
    THEN IF code = 0 /\ Len(lines) = 0 THEN <<"Successfully compiled ", "{file}">>
         ELSE IF code = 0 THEN <<"Successfully compiled ", "{file}", "\n\nOutput:\n", "{output}">>
         ELSE <<"Compilation failed for ", "{file}", "\n\n">> \o OutputPart(lines)
    ELSE IF code = 0
         THEN IF Len(lines) = 0 THEN <<"Test compilation succeeded">>
              ELSE <<"Test compilation succeeded\n\n", "{output}">>
         ELSE <<"Test compilation failed\n\n">> \o OutputPart(lines)

\* (a bug: a failure of execute_command is reported with status zero)
FormatFailure_success(o, msg) ==
    IF o = "scalac" THEN <<"Successfully compiled ", "{file}">>
    ELSE <<"Test compilation succeeded">>
\* The facade's formatting of (msg, 1), what execute_command returns on a failure.
FormatFailure(o, msg) ==
    IF o = "scalac" THEN <<"Compilation failed for ", "{file}", "\n\n">> \o msg
    ELSE <<"Test compilation failed\n\n">> \o msg

\* The pieces of text in a sequence of tokens: position and job.
Pieces(s) == {[pos |-> s[i].pos, own |-> s[i].own] : i \in 1..Len(s)}

----------------------------------------------------------------------------
\* The driver after DottyProject.__init__.
DriverInit ==
    /\ rootExists \in BOOLEAN
    /\ hasBuildSbt \in BOOLEAN
    /\ hasBuildSbt => rootExists
    /\ sbt_process = 0
    /\ spawnCount = 0
    /\ child = "none"
    /\ job = -1
    /\ nout = 0
    /\ first = TRUE
    /\ inq = <<>>
    /\ unread = <<>>
    /\ readPos = 0
    /\ pc = "idle"
    /\ op = "none"
    /\ last = "none"
    /\ cmds = <<>>
    /\ startOutcome = "none"
    /\ startPos = 0
    /\ result = <<>>
    /\ forced = 0
    /\ raised = FALSE

Init ==
    /\ DriverInit
    /\ raw = <<>>
    /\ output = <<>>
    /\ exit_code = -1

----------------------------------------------------------------------------
\* (a bug: a session is constructed on every call)
MustConstruct_always == TRUE
\* DottyProject.ensure_sbt_running, line 148.
MustConstruct == sbt_process = 0

\* (a bug: the marker file is not looked for)
ConfigError_rootOnly == ~rootExists
\* SBTProcess._start_process, lines 31-36.
ConfigError == ~rootExists \/ ~hasBuildSbt
ConfigErrorMsg == IF ~rootExists THEN RootMissingMsg ELSE NoBuildSbtMsg

\* SBTProcess._start_process, line 55: the index expect returned is treated as a
\* failure.  Indices: 0 and 1 the prompt patterns, 2 TIMEOUT, 3 EOF.
StartupFails(index) == index >= 3

\* The child exits: its side of the pseudo-terminal closes, unread input is lost.
ChildGone ==
    /\ child' = "dead"
    /\ job' = -1
    /\ nout' = 0
    /\ first' = TRUE
    /\ inq' = <<>>

\* SBTProcess.execute_command, lines 86-91 and 116-117, called for operation o on
\* the session the facade holds: the not-running check, then sendline(command),
\* which raises when the child exits between the check and the write.
Execute(o) ==
    IF NotRunning
    THEN /\ result' = ErrorText(NotRunningMsg)
         /\ pc' = "idle"
         /\ op' = "none"
         /\ UNCHANGED <<child, job, nout, first, inq, cmds>>
    ELSE \/ /\ Len(cmds) < MaxCmds
            /\ inq' = Append(inq, Len(cmds) + 1)
            /\ cmds' = Append(cmds, [op |-> o, outcome |-> "pending", lo |-> 0,
                                     hi |-> 0, ret |-> {}, code |-> 0])
            /\ result' = <<>>
            /\ pc' = "executing"
            /\ op' = o
            /\ UNCHANGED <<child, job, nout, first>>
         \/ /\ ChildGone
            /\ result' = FormatFailure(o, SendFailedMsg)
            /\ pc' = "idle"
            /\ op' = "none"
            /\ UNCHANGED cmds

\* scalac / testCompilation on a bad working root: ValueError before anything is spawned.
CallConfigError(o) ==
    /\ pc = "idle"
    /\ MustConstruct
    /\ ConfigError
    /\ last' = "call"
    /\ result' = ErrorText(ConfigErrorMsg)
    /\ raised' = FALSE
    /\ UNCHANGED cleanVars
    /\ UNCHANGED <<fsVars, chanVars, sbt_process, spawnCount, pc, op, cmds, startOutcome,
                   startPos, forced>>

\* scalac / testCompilation with no session held: SBTProcess(root) spawns the child
\* and blocks in the startup expect.
CallSpawn(o) ==
    /\ pc = "idle"
    /\ MustConstruct
    /\ ~ConfigError
    /\ spawnCount < MaxSpawn
    /\ last' = "call"
    /\ op' = o
    /\ spawnCount' = spawnCount + 1
    /\ child' = "alive"
    /\ job' = 0
    /\ nout' = 0
    /\ first' = TRUE
    /\ inq' = <<>>
    /\ unread' = <<>>
    /\ readPos' = 0
    /\ cmds' = <<>>
    /\ startOutcome' = "none"
    /\ startPos' = 0
    /\ result' = <<>>
    /\ raised' = FALSE
    /\ pc' = "starting"
    /\ UNCHANGED cleanVars
    /\ UNCHANGED <<fsVars, sbt_process, forced>>

\* pexpect.spawn itself raises (no sbt on the PATH): wrapped at lines 72-73.
CallSpawnFail(o) ==
    /\ pc = "idle"
    /\ MustConstruct
    /\ ~ConfigError
    /\ last' = "call"
    /\ child' = "none"
    /\ job' = -1
    /\ nout' = 0
    /\ first' = TRUE
    /\ inq' = <<>>
    /\ unread' = <<>>
    /\ readPos' = 0
    /\ cmds' = <<>>
    /\ startOutcome' = "spawnfail"
    /\ startPos' = 0
    /\ result' = ErrorText(SpawnFailedMsg)
    /\ raised' = FALSE
    /\ UNCHANGED cleanVars
    /\ UNCHANGED <<fsVars, sbt_process, spawnCount, pc, op, forced>>

\* scalac / testCompilation with a session held: straight to execute_command.
CallExecute(o) ==
    /\ pc = "idle"
    /\ ~MustConstruct
    /\ last' = "call"
    /\ raised' = FALSE
    /\ Execute(o)
    /\ UNCHANGED cleanVars
    /\ UNCHANGED <<fsVars, unread, readPos, sbt_process, spawnCount, startOutcome, startPos,
                   forced>>

----------------------------------------------------------------------------
\* (a bug: the session constructed is not stored)
NewSession_dropped == sbt_process
\* DottyProject.ensure_sbt_running, line 149: the session constructed is stored.
NewSession == spawnCount

\* The startup expect of SBTProcess._start_process (lines 48-56) returns `index`
\* having consumed the first n tokens of the unread text; the rest of the facade
\* call follows.  When the constructor returns, line 149 stores the session and
\* execute_command runs; when it raises, the session object is dropped (its __del__
\* calls close(), which finds no live child after an end of stream) and the facade
\* returns the error text.
StartupReturns(outcome, index, n) ==
    /\ startOutcome' = outcome
    /\ unread' = Rest(n)
    /\ readPos' = readPos + n
    /\ startPos' = readPos + n
    /\ raised' = FALSE
    /\ IF StartupFails(index)
       THEN /\ result' = ErrorText(StartFailedMsg)
            /\ pc' = "idle"
            /\ op' = "none"
            /\ UNCHANGED <<sbt_process, child, job, nout, first, inq, cmds>>
       ELSE /\ sbt_process' = NewSession
            /\ Execute(op)
    /\ UNCHANGED cleanVars
    /\ UNCHANGED <<fsVars, spawnCount, last, forced>>

\* One of the two prompt patterns matches in the text received.
StartupMatch ==
    /\ pc = "starting"
    /\ StartupMatchPos # 0
    /\ StartupReturns("match", 0, ConsumedUpTo(StartupMatchPos))

\* 120 seconds pass with no match: expect returns the index of pexpect.TIMEOUT;
\* the text received stays in pexpect's buffer.
StartupTimeout ==
    /\ pc = "starting"
    /\ StartupMatchPos = 0
    /\ child = "alive"
    /\ StartupReturns("timeout", 2, 0)

\* The child's stream ends with no match: expect returns the index of pexpect.EOF.
StartupEOF ==
    /\ pc = "starting"
    /\ StartupMatchPos = 0
    /\ child = "dead"
    /\ StartupReturns("eof", 3, Len(unread))

----------------------------------------------------------------------------
\* The expect of execute_command (line 95) and what follows it.

\* The record of how the k-th command ended: the read cursor before its read (lo),
\* the position of the match that ended it (hi, 0 when none), the text returned.
Done(k, outcome, hi, lines, code) ==
    [cmds EXCEPT ![k] = [op |-> @.op, outcome |-> outcome, lo |-> readPos, hi |-> hi,
                         ret |-> Pieces(lines), code |-> code]]

\* Lines 95-110: the prompt matched.
ExecMatch ==
    /\ pc = "executing"
    /\ SteadyMatchPos # 0
    /\ LET i == SteadyMatchPos
           k == Len(cmds)
           lines == StripEcho(Before(i), cmds[k].op)
           code == ExitCode(lines)
       IN /\ cmds' = Done(k, "ok", unread[i].pos, lines, code)
          /\ unread' = Rest(ConsumedUpTo(i))
          /\ readPos' = readPos + ConsumedUpTo(i)
          /\ result' = Format(op, lines, code)
    /\ pc' = "idle"
    /\ op' = "none"
    /\ UNCHANGED cleanVars
    /\ UNCHANGED <<fsVars, sbt_process, spawnCount, child, job, nout, first, inq, last,
                   startOutcome, startPos, forced, raised>>

\* (a bug: the handler terminates the child)
ChildAfterTimeout_kill == "dead"
\* What the handler of pexpect.TIMEOUT (lines 112-113) does to the child.
ChildAfterTimeout == child

\* Lines 112-113: the deadline passed with no prompt; the wait is abandoned and the
\* text received stays in pexpect's buffer.
ExecTimeout ==
    /\ pc = "executing"
    /\ SteadyMatchPos = 0
    /\ child = "alive"
    /\ cmds' = Done(Len(cmds), "timeout", 0, <<>>, 1)
    /\ result' = FormatFailure(op, TimedOutMsg)
    /\ child' = ChildAfterTimeout
    /\ pc' = "idle"
    /\ op' = "none"
    /\ UNCHANGED cleanVars
    /\ UNCHANGED <<fsVars, sbt_process, spawnCount, job, nout, first, inq, unread, readPos,
                   last, startOutcome, startPos, forced, raised>>

\* Lines 114-115: the child's stream ended with no prompt.
ExecEOF ==
    /\ pc = "executing"
    /\ SteadyMatchPos = 0
    /\ child = "dead"
    /\ cmds' = Done(Len(cmds), "eof", 0, <<>>, 1)
    /\ unread' = <<>>
    /\ readPos' = readPos + Len(unread)
    /\ result' = FormatFailure(op, TerminatedMsg)
    /\ pc' = "idle"
    /\ op' = "none"
    /\ UNCHANGED cleanVars
    /\ UNCHANGED <<fsVars, sbt_process, spawnCount, child, job, nout, first, inq, last,
                   startOutcome, startPos, forced, raised>>

----------------------------------------------------------------------------
\* DottyProject.close (lines 229-232) and SBTProcess.close (lines 119-126).

\* (a bug: the child's liveness is not looked at)
CloseNeeded_noAliveCheck == sbt_process # 0
\* Line 231 and line 121: there is a session and its child is alive.
CloseNeeded == sbt_process # 0 /\ child = "alive"

\* close(): nothing to do; or sendline('exit') and the wait for the end of stream;
\* or sendline raises because the child exits between the check and the write, and
\* the bare except calls terminate(force=True).
CallClose ==
    /\ pc = "idle"
    /\ last' = "close"
    /\ raised' = FALSE
    /\ result' = <<>>
    /\ IF CloseNeeded
       THEN \/ /\ inq' = Append(inq, 0)
               /\ pc' = "closing"
               /\ UNCHANGED <<child, job, nout, first, forced>>
            \/ /\ ChildGone
               /\ forced' = forced + 1
               /\ UNCHANGED pc
       ELSE UNCHANGED <<child, job, nout, first, inq, pc, forced>>
    /\ UNCHANGED cleanVars
    /\ UNCHANGED <<fsVars, sbt_process, spawnCount, unread, readPos, op, cmds, startOutcome,
                   startPos>>

\* Line 124 returns: the stream ended within 10 seconds.
CloseEOF ==
    /\ pc = "closing"
    /\ child = "dead"
    /\ unread' = <<>>
    /\ readPos' = readPos + Len(unread)
    /\ pc' = "idle"
    /\ UNCHANGED cleanVars
    /\ UNCHANGED <<fsVars, sbt_process, spawnCount, child, job, nout, first, inq, op, last,
                   cmds, startOutcome, startPos, result, forced, raised>>

\* (a bug: the handler catches pexpect.EOF only)
HandlesCloseTimeout_eofOnly == FALSE
\* Line 125: the bare except catches the pexpect.TIMEOUT that line 124 raises.
HandlesCloseTimeout == TRUE

\* Lines 125-126: the wait timed out; the bare except terminates the child by force.
CloseTimeout ==
    /\ pc = "closing"
    /\ child = "alive"
    /\ IF HandlesCloseTimeout
       THEN /\ ChildGone
            /\ forced' = forced + 1
            /\ raised' = FALSE
       ELSE /\ raised' = TRUE
            /\ UNCHANGED <<child, job, nout, first, inq, forced>>
    /\ pc' = "idle"
    /\ UNCHANGED cleanVars
    /\ UNCHANGED <<fsVars, sbt_process, spawnCount, unread, readPos, op, last, cmds,
                   startOutcome, startPos, result>>

----------------------------------------------------------------------------
\* The sbt child at the other end of the pseudo-terminal.

MidKinds ==
    IF job = 0 THEN {"line", "gt"}
    ELSE {"line", "err", "prompt"} \cup (IF first THEN {"echo"} ELSE {})

FinalKinds == IF job = 0 THEN {"prompt", "gt"} ELSE {"prompt"}

Token(kind) ==
    [pos |-> readPos + Len(unread) + 1, own |-> job, kind |-> kind,
     txt |-> IF kind = "echo" THEN cmds[job].op ELSE ""]

\* The child writes a piece of output for the job it is working on.
ChildEmit ==
    /\ child = "alive"
    /\ job >= 0
    /\ nout < MaxOut
    /\ \E kind \in MidKinds : unread' = Append(unread, Token(kind))
    /\ nout' = nout + 1
    /\ first' = FALSE
    /\ UNCHANGED cleanVars
    /\ UNCHANGED <<fsVars, sbt_process, spawnCount, child, job, inq, readPos, pc, op, last,
                   cmds, startOutcome, startPos, result, forced, raised>>

\* The child finishes its job and writes its prompt.
ChildPrompt ==
    /\ child = "alive"
    /\ job >= 0
    /\ \E kind \in FinalKinds : unread' = Append(unread, Token(kind))
    /\ job' = -1
    /\ UNCHANGED cleanVars
    /\ UNCHANGED <<fsVars, sbt_process, spawnCount, child, nout, first, inq, readPos, pc, op,
                   last, cmds, startOutcome, startPos, result, forced, raised>>

\* The idle child reads the next line: a command to run, or the exit directive (0).
ChildTake ==
    /\ child = "alive"
    /\ job = -1
    /\ inq # <<>>
    /\ IF Head(inq) = 0
       THEN ChildGone
       ELSE /\ job' = Head(inq)
            /\ inq' = Tail(inq)
            /\ first' = TRUE
            /\ UNCHANGED <<child, nout>>
    /\ UNCHANGED cleanVars
    /\ UNCHANGED <<fsVars, sbt_process, spawnCount, unread, readPos, pc, op, last,
                   cmds, startOutcome, startPos, result, forced, raised>>

\* The child dies on its own.
ChildDie ==
    /\ child = "alive"
    /\ ChildGone
    /\ UNCHANGED cleanVars
    /\ UNCHANGED <<fsVars, sbt_process, spawnCount, unread, readPos, pc, op, last,
                   cmds, startOutcome, startPos, result, forced, raised>>

----------------------------------------------------------------------------
Next ==
    \/ \E o \in Ops : CallConfigError(o)
    \/ \E o \in Ops : CallSpawn(o)
    \/ \E o \in Ops : CallSpawnFail(o)
    \/ \E o \in Ops : CallExecute(o)
    \/ StartupMatch
    \/ StartupTimeout
    \/ StartupEOF
    \/ ExecMatch
    \/ ExecTimeout
    \/ ExecEOF
    \/ CallClose
    \/ CloseEOF
    \/ CloseTimeout
    \/ ChildEmit
    \/ ChildPrompt
    \/ ChildTake
    \/ ChildDie

Spec == Init /\ [][Next]_vars

\* expect(pexpect.EOF, timeout=10) returns or raises within its deadline.
FairSpec == Spec /\ WF_vars(CloseEOF \/ CloseTimeout)

----------------------------------------------------------------------------
\* The clean-up of execute_command (lines 98-110) taken alone, on texts finer than
\* the driver's tokens.  A raw output is a sequence of lines, the result of
\* output.split('\n'), which is never empty; a line is a sequence of pieces of
\* text: "{command}" the text of the command being executed, "[error]" the marker
\* in lower case, "[ERROR]" the marker in another letter case, " " white space
\* (a carriage return included), "x" any other text.

Alphabet == {"{command}", "[error]", "[ERROR]", " ", "x"}
LinesOfText == UNION {[1..n -> Alphabet] : n \in 0..MaxLineLen}

\* Line 102: command in lines[0]
InLine(line) == \E i \in 1..Len(line) : line[i] = "{command}"

\* Lines 102-103: the first line is dropped when it contains the command.
DropEcho(lines) == IF lines # <<>> /\ InLine(lines[1]) THEN Tail(lines) ELSE lines

\* str.strip on one line, at its start and at its end.
RECURSIVE LStripLine(_)
LStripLine(line) ==
    IF line # <<>> /\ Head(line) = " " THEN LStripLine(Tail(line)) ELSE line

RECURSIVE RStripLine(_)
RStripLine(line) ==
    IF line # <<>> /\ line[Len(line)] = " "
    THEN RStripLine(SubSeq(line, 1, Len(line) - 1)) ELSE line

IsSpace(line) == \A i \in 1..Len(line) : line[i] = " "

\* Line 104: '\n'.join(lines).strip().  The line breaks are white space too: white
\* lines at either end go, then the white space at the start of the first line left
\* and at the end of the last one.
RECURSIVE LStrip(_)
LStrip(lines) ==
    IF lines = <<>> THEN <<>>
    ELSE IF IsSpace(lines[1]) THEN LStrip(Tail(lines))
    ELSE <<LStripLine(lines[1])>> \o Tail(lines)

RECURSIVE RStrip(_)
RStrip(lines) ==
    IF lines = <<>> THEN <<>>
    ELSE IF IsSpace(lines[Len(lines)]) THEN RStrip(SubSeq(lines, 1, Len(lines) - 1))
    ELSE SubSeq(lines, 1, Len(lines) - 1) \o <<RStripLine(lines[Len(lines)])>>

Strip(lines) == RStrip(LStrip(lines))

\* (a bug: the text is searched as it is, letter case included)
Lower_same(c) == c
\* Line 108: output.lower(), on one piece of text.
Lower(c) == IF c = "[ERROR]" THEN "[error]" ELSE c

\* Line 108: 1 if '[error]' in output.lower() else 0
ExitCodeOfText(text) ==
    IF \E i \in 1..Len(text) : \E j \in 1..Len(text[i]) : Lower(text[i][j]) = "[error]"
    THEN 1 ELSE 0

\* The driver plays no part: it stays as constructed.
CleanInit ==
    /\ DriverInit
    /\ rootExists /\ hasBuildSbt
    /\ raw = <<>>
    /\ output = <<>>
    /\ exit_code = -1

\* Line 98 and line 101: any text may come before the prompt, line by line.
Receive ==
    /\ exit_code = -1
    /\ Len(raw) < MaxLines
    /\ \E line \in LinesOfText : raw' = Append(raw, line)
    /\ UNCHANGED <<fsVars, chanVars, sbt_process, spawnCount, pc, op, last, cmds,
                   startOutcome, startPos, result, forced, raised, output, exit_code>>

\* Lines 101-110.
Clean ==
    /\ exit_code = -1
    /\ raw # <<>>
    /\ output' = Strip(DropEcho(raw))
    /\ exit_code' = ExitCodeOfText(output')
    /\ UNCHANGED <<fsVars, chanVars, sbt_process, spawnCount, pc, op, last, cmds,
                   startOutcome, startPos, result, forced, raised, raw>>

CleanNext == Receive \/ Clean

CleanSpec == CleanInit /\ [][CleanNext]_vars

----------------------------------------------------------------------------
\* A step of the caller that starts a facade operation.
IsCallStep == pc = "idle" /\ <<pc, last, result>>' # <<pc, last, result>>

\* The commands sent on the session, and those whose prompt matched.
Sent == 1..Len(cmds)
Matched == {k \in Sent : cmds[k].outcome = "ok"}

----------------------------------------------------------------------------
\* C1: when the startup read ends with TIMEOUT or with the end of the stream,
\* construction fails with a startup error: the facade holds no session and no
\* command is ever sent on the session that failed to start.
C1_StartupFailureReported ==
    startOutcome \in {"timeout", "eof"} =>
        /\ sbt_process = 0
        /\ cmds = <<>>
        /\ pc = "idle" => result = ErrorText(StartFailedMsg)

\* C2: a session whose child has died, or that was closed, is never reused: the
\* next compile / test call spawns a new session, and the facade's close() clears
\* the reference it holds.  (Stated for sessions whose startup read matched a
\* prompt, a special case of the claim: a violation then owes nothing to C1.)
C2_FailedOrClosedNeverReused ==
    /\ [][(/\ IsCallStep /\ last' = "call"
           /\ sbt_process # 0 /\ child = "dead" /\ startOutcome = "match")
            => (spawnCount' = spawnCount + 1 /\ pc' = "starting")]_vars
    /\ []((last = "close" /\ pc = "idle" /\ startOutcome = "match") => sbt_process = 0)

\* C3 as stated, its last clause: text the child produced for an earlier command is
\* never returned as the output of a later one.  (Stated for sessions whose startup
\* read matched a prompt, a special case of the claim: a violation then owes
\* nothing to C1.)
C3_NoEarlierCommandText ==
    startOutcome = "match" =>
        \A k \in Sent : \A r \in cmds[k].ret : ~(1 <= r.own /\ r.own < k)

\* C3 as amended: the text returned for the k-th command lies after every prompt
\* match an earlier read consumed and before the match that ended its own read;
\* it holds text of an earlier job only if that job's read ended with TIMEOUT or
\* at a prompt-like match before that text.
C3_OnlyUnreadSinceLastMatch ==
    \A k \in Matched : \A r \in cmds[k].ret :
        /\ startPos < r.pos /\ cmds[k].lo < r.pos /\ r.pos < cmds[k].hi
        /\ \A j \in 1..(k - 1) : cmds[j].hi < r.pos
        /\ r.own <= k
        /\ r.own = 0 => (startOutcome = "timeout" \/ startPos < r.pos)
        /\ \A j \in 1..(k - 1) :
               r.own = j => (cmds[j].outcome = "timeout" \/ cmds[j].hi < r.pos)

\* C3 witness: a later command returned text the child wrote for an earlier command
\* whose read had timed out.
C3_Witness ==
    \E k \in Matched : \E r \in cmds[k].ret :
        /\ r.own >= 1 /\ r.own < k
        /\ cmds[r.own].outcome = "timeout"

\* C4: the stream is consumed monotonically: no piece of text is returned by two
\* execute calls, and text returned by a call lies behind the read cursor, out of
\* reach of every later read.
C4_StreamMonotonic ==
    /\ \A j, k \in Sent : j # k =>
           {r.pos : r \in cmds[j].ret} \cap {r.pos : r \in cmds[k].ret} = {}
    /\ \A k \in Sent : \A r \in cmds[k].ret :
           /\ r.pos <= readPos
           /\ \A i \in 1..Len(unread) : unread[i].pos # r.pos
    /\ \A i \in 1..Len(unread) : unread[i].pos = readPos + i

\* C4 witness: two commands have completed on the session, the first with text.
C4_Witness ==
    /\ Len(cmds) >= 2
    /\ cmds[1].outcome = "ok" /\ cmds[1].ret # {}
    /\ cmds[2].outcome = "ok"
    /\ pc = "idle"

----------------------------------------------------------------------------
\* C5: nothing is spawned before the first facade call, and while the facade
\* holds a session whose child is alive no step spawns a child or replaces the
\* session.
C5_EnsureReadyIdempotent ==
    /\ [](last = "none" => (spawnCount = 0 /\ sbt_process = 0 /\ child = "none"))
    /\ [][(sbt_process # 0 /\ child = "alive")
            => (spawnCount' = spawnCount /\ sbt_process' = sbt_process)]_vars

\* C5 witness: two commands were sent on the one session spawned, its child alive.
C5_Witness ==
    /\ sbt_process = 1 /\ spawnCount = 1 /\ child = "alive"
    /\ Len(cmds) = 2 /\ cmds[1].outcome = "ok"

\* C6: with the working root missing, or without build.sbt in it, no child is ever
\* spawned, nothing is written, the facade holds no session, and a compile / test
\* call returns "Error: " followed by a message that contains the root path.
C6_ConfigurationError ==
    (~rootExists \/ ~hasBuildSbt) =>
        /\ spawnCount = 0 /\ sbt_process = 0 /\ child = "none"
        /\ inq = <<>> /\ cmds = <<>>
        /\ last = "call" =>
              /\ pc = "idle" /\ ~raised
              /\ Len(result) > 1 /\ result[1] = "Error: "
              /\ \E i \in 2..Len(result) : result[i] = Root

\* C6 witness: a call on a root that exists but has no build.sbt has returned.
C6_Witness == rootExists /\ ~hasBuildSbt /\ last = "call" /\ result # <<>>

\* C7: the step that ends a command's read at its deadline reports the timeout and
\* leaves the child alive, unsignalled, and the session held; and a compile / test
\* call made while the last command timed out and the child is alive is not
\* rejected as not running: its command is sent, unless the child exits under the
\* write.
C7_TimeoutDoesNotPoison ==
    /\ [][(pc = "executing" /\ pc' = "idle" /\ cmds'[Len(cmds)].outcome = "timeout")
            => /\ child = "alive" /\ child' = "alive"
               /\ forced' = forced /\ inq' = inq
               /\ sbt_process' = sbt_process /\ sbt_process # 0
               /\ result' = FormatFailure(op, TimedOutMsg)]_vars
    /\ [][(/\ IsCallStep /\ last' = "call" /\ sbt_process # 0 /\ child = "alive"
           /\ Len(cmds) > 0 /\ cmds[Len(cmds)].outcome = "timeout")
            => /\ result' # ErrorText(NotRunningMsg)
               /\ sbt_process' = sbt_process /\ spawnCount' = spawnCount
               /\ \/ /\ pc' = "executing" /\ child' = "alive"
                     /\ Len(cmds') = Len(cmds) + 1
                     /\ inq' = Append(inq, Len(cmds'))
                  \/ /\ pc' = "idle" /\ child' = "dead" /\ cmds' = cmds
                     /\ \E o \in Ops : result' = FormatFailure(o, SendFailedMsg)]_vars

\* C7 witness: a command was sent after the first command had timed out.
C7_Witness ==
    /\ Len(cmds) = 2 /\ cmds[1].outcome = "timeout"
    /\ pc = "executing" /\ child = "alive"

\* C8: the step that ends a command's read at the end of the stream reports the
\* unexpected termination, and every compile / test call after it on that session
\* returns the not-running error and writes nothing.
C8_StreamEndFailsFast ==
    /\ [][(pc = "executing" /\ pc' = "idle" /\ cmds'[Len(cmds)].outcome = "eof")
            => result' = FormatFailure(op, TerminatedMsg)]_vars
    /\ [][(/\ IsCallStep /\ last' = "call"
           /\ \E k \in Sent : cmds[k].outcome = "eof")
            => /\ result' = ErrorText(NotRunningMsg) /\ pc' = "idle"
               /\ inq' = inq /\ cmds' = cmds
               /\ spawnCount' = spawnCount /\ sbt_process' = sbt_process]_vars

\* C8 witness: a call after the stream ended has returned the not-running error.
C8_Witness ==
    /\ \E k \in Sent : cmds[k].outcome = "eof"
    /\ last = "call" /\ pc = "idle" /\ result = ErrorText(NotRunningMsg)

\* C9: close() never raises, and a close() made right after a close() has returned
\* changes nothing: no write, no wait, no signal.
C9_CloseIdempotent ==
    /\ [](last = "close" => ~raised)
    /\ [][(pc = "idle" /\ last = "close" /\ last' = "close") => UNCHANGED vars]_vars

\* C9 witness: a close() of a session that had run a command has returned; the
\* next close() finds the session held and its child dead.
C9_Witness ==
    /\ last = "close" /\ pc = "idle" /\ sbt_process # 0 /\ child = "dead"
    /\ Matched # {} /\ forced = 0

\* C10: close() on a live child first writes the exit directive and waits; the wait
\* always ends; the child is terminated by force exactly when the write fails or the
\* child is still alive at the end of the wait; and no child is alive once close()
\* has returned.
C10_ShutdownCompletes ==
    /\ (pc = "closing") ~> (pc = "idle")
    /\ []((last = "close" /\ pc = "idle") => child # "alive")
    /\ [][(IsCallStep /\ last' = "close" /\ child = "alive" /\ sbt_process # 0)
            => \/ /\ pc' = "closing" /\ inq' = Append(inq, 0)
                  /\ forced' = forced /\ child' = child
               \/ /\ pc' = "idle" /\ inq' # Append(inq, 0)
                  /\ forced' = forced + 1 /\ child' = "dead"]_vars
    /\ [][(pc = "closing" /\ pc' = "idle")
            => /\ (forced' = forced + 1) <=> (child = "alive")
               /\ forced' \in {forced, forced + 1}
               /\ ~raised']_vars

\* C10 witness: the child ignored the exit directive and close() has returned after
\* terminating it by force.
C10_Witness == last = "close" /\ pc = "idle" /\ forced = 1 /\ child = "dead"

----------------------------------------------------------------------------
\* The tool functions scalac and testCompilation (lines 243-303) are synchronous, and
\* the server runs them one at a time: a facade call starts only when the caller is
\* idle.  The commands of a session that are waiting for their prompt:
Pending == {k \in Sent : cmds[k].outcome = "pending"}

\* C11: at most one command of a session is in flight: while a command awaits its
\* prompt the caller is in that execute call and no other command line is written;
\* and a command line is written only on a session that is Ready, that is whose
\* startup read matched a prompt and whose child is alive, which the write puts in
\* Executing.
C11_NoOverlappingCommands ==
    /\ [](\A k \in Pending : k = Len(cmds) /\ pc = "executing")
    /\ [][Len(cmds') = Len(cmds) + 1
            => /\ Pending = {}
               /\ child = "alive"
               /\ startOutcome' = "match"
               /\ pc' = "executing"]_vars

----------------------------------------------------------------------------
\* A step in which a compile / test call returns to the caller.
Returns == pc' = "idle" /\ last' = "call" /\ <<pc, last, result>>' # <<pc, last, result>>

----------------------------------------------------------------------------
\* A sequence of tokens as the parts of a text, and a text that holds another.
Text(s) == [i \in 1..Len(s) |-> s[i].kind]
Holds(r, t) == \E i \in 0..(Len(r) - Len(t)) : SubSeq(r, i + 1, i + Len(t)) = t

\* C15: the error of a failed startup carries the partial output: when the startup
\* read ends at the end of the stream, the text returned to the caller holds the
\* text received from the child up to then.  (Stated for the end of the stream, a
\* special case of the claim: a violation then owes nothing to C1.)
C15_StartupErrorCarriesOutput ==
    [][(pc = "starting" /\ startOutcome' = "eof" /\ unread # <<>>)
         => (pc' = "idle" /\ Holds(result', Text(unread)))]_vars

----------------------------------------------------------------------------
----------------------------------------------------------------------------
\* The texts the facade returns for status zero.
IsSuccessText(r) ==
    /\ r # <<>>
    /\ r[1] \in {"Successfully compiled ", "Test compilation succeeded",
                 "Test compilation succeeded\n\n"}

\* C18: status zero is returned only for a command whose read matched the prompt;
\* a read that ends at its deadline or at the end of the stream, and a write that
\* fails, return status one with their message and no output; and execute_command
\* raises only when the child is not running, having written nothing.
C18_ZeroStatusOnlyOnMatch ==
    /\ [](\A k \in Sent :
            /\ cmds[k].outcome \in {"timeout", "eof"} => (cmds[k].code = 1 /\ cmds[k].ret = {})
            /\ (cmds[k].outcome # "pending" /\ cmds[k].code = 0) => cmds[k].outcome = "ok")
    /\ [][Returns =>
            /\ IsSuccessText(result') => (pc = "executing" /\ SteadyMatchPos # 0)
            /\ (pc = "executing" /\ SteadyMatchPos = 0)
                   => result' \in {FormatFailure(op, TimedOutMsg),
                                   FormatFailure(op, TerminatedMsg)}
            /\ (Len(cmds') = Len(cmds) /\ child = "alive" /\ child' = "dead")
                   => \E o \in Ops : result' = FormatFailure(o, SendFailedMsg)
            /\ (result'[1] = "Error: " /\ (sbt_process' # 0))
                   => /\ result' = ErrorText(NotRunningMsg)
                      /\ child # "alive"
                      /\ Len(inq') <= Len(inq) /\ cmds' = cmds]_vars

\* C18 witness: the only command sent timed out and the call has returned the
\* failure text.
C18_Witness ==
    /\ pc = "idle" /\ last = "call"
    /\ Len(cmds) = 1 /\ cmds[1].outcome = "timeout" /\ cmds[1].code = 1
    /\ \E o \in Ops : result = FormatFailure(o, TimedOutMsg)

----------------------------------------------------------------------------
\* The clean-up has run.
Cleaned == exit_code # -1

\* A line that is the echo of the command: the command text and white space only.
IsEcho(line) == RStripLine(LStripLine(line)) = <<"{command}">>

\* The pieces of a text.
PiecesOf(text) == UNION {{text[i][j] : j \in 1..Len(text[i])} : i \in 1..Len(text)}

\* C12: the output returned does not have the echoed command as its leading line.
\* (Stated for raw outputs that mention the command text once only, in the line
\* that echoes it, a special case of the claim: what is left in the output can
\* then only be the echo.)
C12_NoLeadingEcho ==
    (/\ Cleaned
     /\ \A i, j \in 1..Len(raw) : (InLine(raw[i]) /\ InLine(raw[j])) => i = j
     /\ \A i \in 1..Len(raw) : InLine(raw[i]) => IsEcho(raw[i]))
        => ~(output # <<>> /\ IsEcho(output[1]))

\* C13: the exit code is 1 or 0, and it is 1 exactly when the output returned
\* contains the marker "[error]" in whatever letter case.
C13_StatusFromMarker ==
    Cleaned =>
        /\ exit_code \in {0, 1}
        /\ exit_code # 0 <=> PiecesOf(output) \cap {"[error]", "[ERROR]"} # {}

\* C13 witness: the marker is in the output in upper case only, and the exit code
\* is 1; the marker of the dropped first line does not count.
C13_Witness ==
    /\ Cleaned
    /\ exit_code = 1
    /\ raw = <<<<"{command}", "[error]">>, <<"[ERROR]", "x">>>>
    /\ output = <<<<"[ERROR]", "x">>>>

\* A line that begins with the command text, white space apart.
BeginsWithCommand(line) ==
    LET l == LStripLine(line) IN l # <<>> /\ l[1] = "{command}"

\* C16, its last clause: when the raw output holds no echo, no line that begins
\* with the command text, the output returned is the raw output with the white
\* space at its ends trimmed.
C16_OnlyEchoStripped ==
    (Cleaned /\ \A i \in 1..Len(raw) : ~BeginsWithCommand(raw[i]))
        => output = Strip(raw)

====
